---- MODULE Spec2Model ----
(***************************************************************************)
(* Model of the discv5 packet codec (src/src/packet/mod.rs): the Packet,   *)
(* PacketHeader and PacketKind encoders and decoders and the inline        *)
(* AES-CTR header masking.  Byte strings are sequences of 0..255; Rust's   *)
(* 0-based indices and half-open slices are translated by Index and Slice. *)
(* A panic of the Rust code is an outcome of its own, Panic(msg).          *)
(* Structs and enums are tuples of their fields, read through accessors.   *)
(* The Socket of src/src/socket/mod.rs, with the exit channels of its two  *)
(* handler tasks, is modelled beside it under a specification of its own,  *)
(* SocketSpec.                                                             *)
(***************************************************************************)
EXTENDS Integers, Sequences, FiniteSets, TLC

(* ------------------------------------------------------------------ *)
(* Program constants                                                   *)
(* ------------------------------------------------------------------ *)
IV_LENGTH == 16
STATIC_HEADER_LENGTH == 23
MESSAGE_NONCE_LENGTH == 12
ID_NONCE_LENGTH == 32
\* "discv5  " as ASCII bytes
PROTOCOL_ID == <<100, 105, 115, 99, 118, 53, 32, 32>>
VERSION == 1

(* ------------------------------------------------------------------ *)
(* Bounds of the model                                                 *)
(* ------------------------------------------------------------------ *)
\* message ciphertexts handed to new_message have 0..MaxMessageLen bytes
MaxMessageLen == 1
\* the random iv of a constructor is drawn from 0..MaxIv
MaxIv == 1
\* enr_seq of a WHOAREYOU is drawn from 0..MaxEnrSeq
MaxEnrSeq == 1
\* the number of Sockets the program creates
MaxSockets == 2

(* ------------------------------------------------------------------ *)
(* Results: Ok(v), Err(e) or a panic                                   *)
(* ------------------------------------------------------------------ *)
Ok(v) == <<"Ok", v>>
Err(name, arg) == <<"Err", name, arg>>
Panic(msg) == <<"Panic", msg>>
\* "Ok", "Err" or "Panic"
Tag(r) == r[1]
\* the value of an Ok
Val(r) == r[2]
\* the PacketError variant of an Err
ErrName(r) == r[2]
IsErr(r, name) == Tag(r) = "Err" /\ ErrName(r) = name
None == <<>>
Some(x) == <<x>>

(* ------------------------------------------------------------------ *)
(* Byte-string helpers                                                 *)
(* ------------------------------------------------------------------ *)
RECURSIVE Fill(_, _)
\* vec![b; n]
Fill(n, b) ==
    IF n = 0 THEN <<>>
    ELSE LET half == Fill(n \div 2, b)
         IN  half \o half \o (IF n % 2 = 1 THEN <<b>> ELSE <<>>)
\* Rust s[i]
Index(s, i) == s[i + 1]
\* Rust s[a..b]; the caller has checked SliceInRange
Slice(s, a, b) == SubSeq(s, a + 1, b)
SliceFrom(s, a) == SubSeq(s, a + 1, Len(s))
\* s[a..b] panics unless a <= b <= len
SliceInRange(s, a, b) == a <= b /\ b <= Len(s)

RECURSIVE to_be_bytes(_, _)
\* n.to_be_bytes() for an unsigned integer of w bytes
to_be_bytes(n, w) ==
    IF w = 0 THEN <<>> ELSE Append(to_be_bytes(n \div 256, w - 1), n % 256)

RECURSIVE from_be_bytes(_)
\* uN::from_be_bytes(s)
from_be_bytes(s) ==
    IF Len(s) = 0 THEN 0
    ELSE 256 * from_be_bytes(SubSeq(s, 1, Len(s) - 1)) + s[Len(s)]

RECURSIVE XorBits(_, _, _)
XorBits(a, b, n) ==
    IF n = 0 THEN 0
    ELSE ((a + b) % 2) + 2 * XorBits(a \div 2, b \div 2, n - 1)
\* exclusive-or of two bytes
Xor(a, b) == XorBits(a, b, 8)

(* ------------------------------------------------------------------ *)
(* Aes128Ctr: a keystream cipher object.  The keystream byte at a      *)
(* position is a fixed function of key, nonce and position (the block  *)
(* cipher itself is abstracted); the object remembers its position, so *)
(* two successive apply_keystream calls continue the same stream.      *)
(* ------------------------------------------------------------------ *)
KeystreamByte(key, nonce, pos) ==
    (key[(pos % 16) + 1] * 7 + nonce[((pos + pos \div 16) % 16) + 1] * 13
        + pos * 31 + 99) % 256

\* the cipher object: key, nonce and the position in the keystream
Aes128Ctr_new(key, nonce) == <<key, nonce, 0>>

\* cipher.apply_keystream(&mut buf): the masked buffer and the advanced cipher
apply_keystream(cipher, buf) ==
    << IF buf = <<>> THEN <<>>
       ELSE <<>> \o [i \in 1..Len(buf) |->
                       Xor(buf[i], KeystreamByte(cipher[1], cipher[2], cipher[3] + i - 1))],
       <<cipher[1], cipher[2], cipher[3] + Len(buf)>> >>
\* the two parts of what apply_keystream yields
Masked(applied) == applied[1]
\* mutant of CipherAfter: the cipher starts again at the head of the keystream
CipherAfter_Restarted(applied) == <<applied[2][1], applied[2][2], 0>>
CipherAfter(applied) == applied[2]

(* ------------------------------------------------------------------ *)
(* Node records: an Enr is kept as its content bytes; its RLP encoding *)
(* is a list header (0xc0 + length) followed by the content.           *)
(* ------------------------------------------------------------------ *)
rlp_encode(enr) == <<192 + Len(enr)>> \o enr

rlp_decode(bytes) ==
    IF Len(bytes) >= 1 /\ bytes[1] = 192 + (Len(bytes) - 1)
    THEN Ok(Tail(bytes))
    ELSE Err("DecoderError", 0)

(* ------------------------------------------------------------------ *)
(* PacketKind                                                          *)
(* ------------------------------------------------------------------ *)
Message(nonce) == <<"Message", nonce>>
WhoAreYou(request_nonce, id_nonce, enr_seq) ==
    <<"WhoAreYou", request_nonce, id_nonce, enr_seq>>
Handshake(message_nonce, id_nonce_sig, ephem_pubkey, enr_record) ==
    <<"Handshake", message_nonce, id_nonce_sig, ephem_pubkey, enr_record>>
\* the variant of a PacketKind and its fields
Variant(k) == k[1]
MessageNonceOf(k) == k[2]
RequestNonceOf(k) == k[2]
IdNonceOf(k) == k[3]
EnrSeqOf(k) == k[4]
IdNonceSigOf(k) == k[3]
EphemPubkeyOf(k) == k[4]
EnrRecordOf(k) == k[5]

\* impl Into<u8> for &PacketKind
KindByte(k) ==
    CASE Variant(k) = "Message" -> 0
      [] Variant(k) = "WhoAreYou" -> 1
      [] Variant(k) = "Handshake" -> 2

is_whoareyou(k) == Variant(k) = "WhoAreYou"

\* PacketKind::encode
PacketKind_encode(k) ==
    CASE Variant(k) = "Message" -> MessageNonceOf(k)
      [] Variant(k) = "WhoAreYou" ->
            RequestNonceOf(k) \o IdNonceOf(k) \o to_be_bytes(EnrSeqOf(k), 8)
      [] Variant(k) = "Handshake" ->
            LET sig_size == Len(IdNonceSigOf(k))
                pubkey_size == Len(EphemPubkeyOf(k))
                node_record == IF EnrRecordOf(k) = None THEN <<>>
                               ELSE rlp_encode(EnrRecordOf(k)[1])
            IN  to_be_bytes(VERSION, 2) \o MessageNonceOf(k)
                  \o to_be_bytes(sig_size % 256, 1)
                  \o to_be_bytes(pubkey_size % 256, 1)
                  \o IdNonceSigOf(k) \o EphemPubkeyOf(k) \o node_record

\* the length PacketKind::encode asserts of the auth-data it has written:
\* the literal 52 for WhoAreYou, expected_len for Handshake.  Message
\* asserts nothing, so its own length stands.
expected_len(k) ==
    CASE Variant(k) = "Message" -> Len(MessageNonceOf(k))
      [] Variant(k) = "WhoAreYou" -> 52
      [] Variant(k) = "Handshake" ->
            LET sig_size == Len(IdNonceSigOf(k))
                pubkey_size == Len(EphemPubkeyOf(k))
                node_record == IF EnrRecordOf(k) = None THEN <<>>
                               ELSE rlp_encode(EnrRecordOf(k)[1])
            IN  15 + sig_size + pubkey_size + Len(node_record)

\* the debug_assert_eq! that closes the WhoAreYou and Handshake arms
EncodeAssertionHolds(k) == Len(PacketKind_encode(k)) = expected_len(k)

\* the outcome of PacketKind::encode (and of every encoder that calls it) in a
\* build with or without debug assertions: the bytes, or the assertion's panic
EncodeOutcome(k, debug_assertions, bytes) ==
    IF debug_assertions /\ ~EncodeAssertionHolds(k)
    THEN Panic("assertion failed: left == right")
    ELSE Ok(bytes)

\* mutant of DecodeMessageKind: only auth-data that is too short is rejected
DecodeMessageKind_AtLeast(auth_data) ==
    IF Len(auth_data) < MESSAGE_NONCE_LENGTH
    THEN Err("InvalidAuthDataSize", 0)
    ELSE Ok(Message(auth_data))

\* PacketKind::decode, kind 0
DecodeMessageKind(auth_data) ==
    IF Len(auth_data) # MESSAGE_NONCE_LENGTH
    THEN Err("InvalidAuthDataSize", 0)
    ELSE Ok(Message(auth_data))

\* PacketKind::decode, kind 1
DecodeWhoAreYouKind(auth_data) ==
    IF Len(auth_data) # 52
    THEN Err("InvalidAuthDataSize", 0)
    ELSE Ok(WhoAreYou(
            Slice(auth_data, 0, MESSAGE_NONCE_LENGTH),
            Slice(auth_data, MESSAGE_NONCE_LENGTH, MESSAGE_NONCE_LENGTH + ID_NONCE_LENGTH),
            from_be_bytes(SliceFrom(auth_data, MESSAGE_NONCE_LENGTH + ID_NONCE_LENGTH))))

\* the comparison `auth_data[0] != VERSION` of PacketKind::decode, kind 2
VersionMismatch(auth_data) == Index(auth_data, 0) # VERSION

\* PacketKind::decode, kind 2.  overflow_checks is the build's setting for
\* integer overflow: a panic when set, wrap-around when not.
DecodeHandshakeKind(auth_data, overflow_checks) ==
    IF Len(auth_data) < 3 + MESSAGE_NONCE_LENGTH
    THEN Err("InvalidAuthDataSize", 0)
    ELSE IF VersionMismatch(auth_data)
    THEN Err("InvalidVersion", Index(auth_data, 0))
    ELSE
    LET message_nonce == Slice(auth_data, 1, MESSAGE_NONCE_LENGTH + 1)
        sig_size == Index(auth_data, MESSAGE_NONCE_LENGTH + 1)
        eph_key_size == Index(auth_data, MESSAGE_NONCE_LENGTH + 2)
        sig_key_size == (sig_size + eph_key_size) % 256
    IN
    IF sig_size + eph_key_size > 255 /\ overflow_checks
    THEN Panic("attempt to add with overflow")
    ELSE IF Len(auth_data) < 3 + MESSAGE_NONCE_LENGTH + sig_key_size
    THEN Err("InvalidAuthDataSize", 0)
    ELSE
    LET remaining_data == SliceFrom(auth_data, MESSAGE_NONCE_LENGTH + 3)
    IN
    IF ~SliceInRange(remaining_data, 0, sig_size)
    THEN Panic("range end index out of range for slice")
    ELSE IF ~SliceInRange(remaining_data, sig_size, sig_key_size)
    THEN Panic("slice index starts after its end")
    ELSE
    LET id_nonce_sig == Slice(remaining_data, 0, sig_size)
        ephem_pubkey == Slice(remaining_data, sig_size, sig_key_size)
        enr == IF Len(remaining_data) > sig_key_size
               THEN rlp_decode(SliceFrom(remaining_data, sig_key_size))
               ELSE Ok(None)
    IN
    IF Tag(enr) = "Err"
    THEN Err("InvalidEnr", 0)
    ELSE Ok(Handshake(message_nonce, id_nonce_sig, ephem_pubkey,
                      IF Len(remaining_data) > sig_key_size
                      THEN Some(Val(enr)) ELSE None))

\* mutant of PacketKind_decode: the last arm takes every remaining kind byte
PacketKind_decode_NoDefault(kind, auth_data, overflow_checks) ==
    CASE kind = 0 -> DecodeMessageKind(auth_data)
      [] kind = 1 -> DecodeWhoAreYouKind(auth_data)
      [] OTHER -> DecodeHandshakeKind(auth_data, overflow_checks)

\* PacketKind::decode
PacketKind_decode(kind, auth_data, overflow_checks) ==
    CASE kind = 0 -> DecodeMessageKind(auth_data)
      [] kind = 1 -> DecodeWhoAreYouKind(auth_data)
      [] kind = 2 -> DecodeHandshakeKind(auth_data, overflow_checks)
      [] OTHER -> Err("UnknownPacket", 0)

(* ------------------------------------------------------------------ *)
(* PacketHeader and Packet                                             *)
(* ------------------------------------------------------------------ *)
PacketHeader(src_id, kind) == <<src_id, kind>>
Packet(iv, header, message) == <<iv, header, message>>
\* the fields of a PacketHeader and of a Packet
SrcIdOf(h) == h[1]
KindOf(h) == h[2]
IvOf(p) == p[1]
HeaderOf(p) == p[2]
MessageOf(p) == p[3]

\* NodeId::raw and NodeId::parse: a NodeId is its 32 raw bytes
NodeId_raw(id) == id
NodeId_parse(bytes) ==
    IF Len(bytes) = 32 THEN Ok(bytes) ELSE Err("InvalidLength", 0)

\* mutant of PacketHeader_encode: the auth-data length is written low byte first
PacketHeader_encode_LittleEndian(h) ==
    LET auth_data == PacketKind_encode(KindOf(h))
    IN  PROTOCOL_ID \o NodeId_raw(SrcIdOf(h)) \o to_be_bytes(KindByte(KindOf(h)), 1)
          \o <<Len(auth_data) % 256, (Len(auth_data) \div 256) % 256>> \o auth_data

\* PacketHeader::encode
PacketHeader_encode(h) ==
    LET auth_data == PacketKind_encode(KindOf(h))
    IN  PROTOCOL_ID \o NodeId_raw(SrcIdOf(h)) \o to_be_bytes(KindByte(KindOf(h)), 1)
          \o to_be_bytes(Len(auth_data) % 65536, 2) \o auth_data

\* mutant of authenticated_data: a WhoAreYou header is encoded like the others
authenticated_data_NeverEmpty(h) == PacketHeader_encode(h)

\* PacketHeader::authenticated_data
authenticated_data(h) ==
    IF is_whoareyou(KindOf(h)) THEN <<>> ELSE PacketHeader_encode(h)

\* key.zeroize() / nonce.zeroize(): every byte of the buffer becomes 0
zeroize(buf) == Fill(Len(buf), 0)

\* mutant of generate_header_run: the mask is keyed by the source id
generate_header_run_SrcKey(p, dst_id) ==
    LET header_bytes == PacketHeader_encode(HeaderOf(p))
        key == Slice(NodeId_raw(SrcIdOf(HeaderOf(p))), 0, 16)
        nonce == to_be_bytes(IvOf(p), 16)
        cipher == Aes128Ctr_new(key, nonce)
    IN  <<Masked(apply_keystream(cipher, header_bytes)), zeroize(key), zeroize(nonce)>>

\* Packet::generate_header, with the key and nonce buffers as it leaves them:
\* <<the masked header bytes, key, nonce>>
generate_header_run(p, dst_id) ==
    LET header_bytes == PacketHeader_encode(HeaderOf(p))
        key == Slice(NodeId_raw(dst_id), 0, 16)
        nonce == to_be_bytes(IvOf(p), 16)
        cipher == Aes128Ctr_new(key, nonce)
    IN  <<Masked(apply_keystream(cipher, header_bytes)), zeroize(key), zeroize(nonce)>>

\* Packet::generate_header
generate_header(p, dst_id) == generate_header_run(p, dst_id)[1]

\* Packet::encode
Packet_encode(p, dst_id) ==
    LET header == generate_header(p, dst_id)
    IN  to_be_bytes(IvOf(p), 16) \o header \o MessageOf(p)

\* the minimum-length test that opens Packet::decode
TooSmall(data) == Len(data) < IV_LENGTH + STATIC_HEADER_LENGTH + 24

\* mutant of StaticHeaderBytes: the end of the slice forgets the iv
StaticHeaderBytes_NoIvOffset(data) == Slice(data, IV_LENGTH, STATIC_HEADER_LENGTH)

\* the static header content Packet::decode takes from the input
StaticHeaderBytes(data) == Slice(data, IV_LENGTH, IV_LENGTH + STATIC_HEADER_LENGTH)

\* mutant of ProtocolIdMismatch: only the first 6 bytes are compared
ProtocolIdMismatch_SixBytes(static_header) ==
    Slice(static_header, 0, 6) # Slice(PROTOCOL_ID, 0, 6)

\* the protocol-id test of Packet::decode
ProtocolIdMismatch(static_header) == Slice(static_header, 0, 8) # PROTOCOL_ID

\* the test of the declared auth-data size in Packet::decode
AuthDataTooLarge(data, auth_data_size) ==
    LET remaining_data == SliceFrom(data, STATIC_HEADER_LENGTH)
    IN  auth_data_size > Len(remaining_data)

\* what a call of Packet::decode leaves behind: its return value, the key and
\* nonce buffers as they are when it returns (None when not yet derived), and
\* the header bytes it has unmasked
Returned(value, key, nonce, unmasked) == <<value, key, nonce, unmasked>>
ValueOf(run) == run[1]
KeyOf(run) == run[2]
NonceOf(run) == run[3]
UnmaskedOf(run) == run[4]

\* Packet::decode, with what it leaves behind.  key and nonce are immutable
\* bindings that the function never overwrites.
Packet_decode_run(src_id, data, overflow_checks) ==
    IF TooSmall(data)
    THEN Returned(Err("TooSmall", 0), None, None, <<>>)
    ELSE
    LET iv == Slice(data, 0, IV_LENGTH)
        key == Slice(NodeId_raw(src_id), 0, 16)
        nonce == iv
        cipher == Aes128Ctr_new(key, nonce)
        unmasked == apply_keystream(cipher, StaticHeaderBytes(data))
        static_header == Masked(unmasked)
    IN
    IF Len(static_header) # STATIC_HEADER_LENGTH
    THEN Returned(Err("HeaderLengthInvalid", Len(static_header)),
                  Some(key), Some(nonce), static_header)
    ELSE IF ProtocolIdMismatch(static_header)
    THEN Returned(Err("HeaderDecryptionFailed", 0), Some(key), Some(nonce), static_header)
    ELSE
    LET auth_data_size == from_be_bytes(SliceFrom(static_header, STATIC_HEADER_LENGTH - 2))
        auth_end == IV_LENGTH + STATIC_HEADER_LENGTH + auth_data_size
    IN
    IF AuthDataTooLarge(data, auth_data_size)
    THEN Returned(Err("InvalidAuthDataSize", 0), Some(key), Some(nonce), static_header)
    ELSE IF ~SliceInRange(data, IV_LENGTH + STATIC_HEADER_LENGTH, auth_end)
    THEN Returned(Panic("range end index out of range for slice"),
                  Some(key), Some(nonce), static_header)
    ELSE
    LET auth_data == Masked(apply_keystream(CipherAfter(unmasked),
                        Slice(data, IV_LENGTH + STATIC_HEADER_LENGTH, auth_end)))
        header_bytes == static_header \o auth_data
    IN
    IF ~(40 < Len(static_header))
    THEN Returned(Panic("index out of bounds"), Some(key), Some(nonce), header_bytes)
    ELSE
    LET kind == PacketKind_decode(Index(static_header, 40), auth_data, overflow_checks)
    IN
    IF Tag(kind) # "Ok"
    THEN Returned(kind, Some(key), Some(nonce), header_bytes)
    ELSE IF ~SliceInRange(static_header, 8, 40)
    THEN Returned(Panic("range end index out of range for slice"),
                  Some(key), Some(nonce), header_bytes)
    ELSE
    LET parsed == NodeId_parse(Slice(static_header, 8, 40))
        message == SliceFrom(data, auth_end)
    IN
    IF Tag(parsed) # "Ok"
    THEN Returned(Panic("This is exactly 32 bytes"), Some(key), Some(nonce), header_bytes)
    ELSE IF message # <<>> /\ is_whoareyou(Val(kind))
    THEN Returned(Err("UnknownPacket", 0), Some(key), Some(nonce), header_bytes)
    ELSE Returned(Ok(Packet(from_be_bytes(iv), PacketHeader(Val(parsed), Val(kind)), message)),
                  Some(key), Some(nonce), header_bytes)

\* Packet::decode
Packet_decode(src_id, data, overflow_checks) ==
    ValueOf(Packet_decode_run(src_id, data, overflow_checks))

(* ------------------------------------------------------------------ *)
(* Inputs                                                              *)
(* ------------------------------------------------------------------ *)
\* a node id whose bytes 21 and 22 of the encoded header read as 40
SteppedId ==
    Fill(14, 0) \o <<40, 41, 42, 43, 44, 45, 46, 47, 48, 49, 50, 51, 52, 53, 54, 55, 56, 57>>
NodeIds == {Fill(32, 3), Fill(32, 4), SteppedId}
Nonces == {Fill(MESSAGE_NONCE_LENGTH, 12)}
IdNonces == {Fill(ID_NONCE_LENGTH, 7)}
IVs == 0..MaxIv
EnrSeqs == 0..MaxEnrSeq
Messages == {Fill(n, 1) : n \in 0..MaxMessageLen} \cup {Fill(12, 1)}
Signatures == {Fill(64, 5), Fill(200, 5)}
PublicKeys == {Fill(33, 6), Fill(100, 6)}
Enrs == {<<1, 2, 3>>}
EnrRecords == {None} \cup {Some(e) : e \in Enrs}
\* the ids packets are encoded for
DstIds == {Fill(32, 4), SteppedId}
HandshakeKinds ==
    {Handshake(n, s, k, e) :
        n \in Nonces, s \in Signatures, k \in PublicKeys, e \in EnrRecords}

MessageKinds == {Message(n) : n \in Nonces}
WhoAreYouKinds ==
    {WhoAreYou(n, i, e) : n \in Nonces, i \in IdNonces, e \in EnrSeqs}

\* byte offsets of an encoded packet an adversary flips a bit at: the masked
\* protocol tag, and the last byte of the iv, two source-id bytes, the kind
\* byte and the auth-data length
TagOffsets == IV_LENGTH .. (IV_LENGTH + 7)
OtherOffsets == {IV_LENGTH - 1, IV_LENGTH + 21, IV_LENGTH + 22,
                 IV_LENGTH + 40, IV_LENGTH + 41, IV_LENGTH + 42}
\* the bits flipped in a tag byte: lowest, a middle one, highest
TagBits == {0, 3, 7}
Flips == (TagOffsets \X TagBits) \cup (OtherOffsets \X {0})
TruncatedLengths == {0, 15, 38, 62, 63, 70}

RECURSIVE Pow2(_)
Pow2(n) == IF n = 0 THEN 1 ELSE 2 * Pow2(n - 1)
FlipBit(bytes, offset, bit) ==
    [bytes EXCEPT ![offset + 1] = Xor(@, Pow2(bit))]

\* arbitrary datagrams: constant fills around the length boundaries
FuzzLengths == {0, 1, 32, 38, 39, 62, 63, 64, 70, 71, 72}
FuzzData == {Fill(n, b) : n \in FuzzLengths, b \in {0, 255}}

\* auth-data handed to PacketKind::decode directly: fills around the length
\* boundaries, and handshake-shaped inputs <<v>> nonce <<s, k>> rest
AuthLengths == {0, 11, 12, 13, 14, 15, 16, 51, 53}
WhoAreYouShaped ==
    {Fill(MESSAGE_NONCE_LENGTH, 12) \o Fill(ID_NONCE_LENGTH, 7) \o to_be_bytes(n, 8) :
        n \in {0, 1, 258}}
HandshakeShaped ==
    {<<v>> \o Fill(MESSAGE_NONCE_LENGTH, 7) \o <<s, k>> \o Fill(r, 9) :
        v \in {0, 1}, s \in {0, 2, 200}, k \in {0, 3, 100}, r \in {0, 4, 5, 6, 44, 300}}
\* auth-data as PacketKind::encode produces it
EncodedKinds == {PacketKind_encode(k) : k \in HandshakeKinds}
EncodedSimpleKinds == {PacketKind_encode(k) : k \in MessageKinds \cup WhoAreYouKinds}
KindBytes == {0, 1, 2, 3, 255}
AuthInputs ==
    {Fill(n, b) : n \in AuthLengths, b \in {0, 1}}
        \cup WhoAreYouShaped \cup HandshakeShaped \cup EncodedKinds
        \cup EncodedSimpleKinds

(* ------------------------------------------------------------------ *)
(* State                                                               *)
(* ------------------------------------------------------------------ *)
VARIABLES
    pc,               \* "start", "built", "wire", "done", "kind_done", "encode_panicked",
                      \* "header_done", "kind_encoded"
    overflow_checks,  \* whether the build panics on integer overflow
    debug_assertions, \* whether the build evaluates debug_assert_eq!
    packet,           \* None or Some(the Packet constructed)
    dst_id,           \* None or Some(the id the packet was encoded for)
    data,             \* the datagram on the wire
    origin,           \* how data came about: "none", "encode", "flip", "append", "truncate", "fuzz"
    flipped,          \* the byte offset a bit was flipped at, -1 when none was
    local_id,         \* None or Some(the id Packet::decode was called with)
    result,           \* None or Some(the outcome of Packet::decode)
    key_buf,          \* None or Some(the key buffer as the last encode or decode left it)
    nonce_buf,        \* None or Some(the nonce buffer as the last encode or decode left it)
    unmasked,         \* the header bytes Packet::decode has unmasked
    kind_in,          \* the kind byte handed to PacketKind::decode
    auth_in,          \* the auth-data handed to PacketKind::decode
    kind_result,      \* None or Some(the outcome of PacketKind::decode)
    kind_out,         \* None or Some(the outcome of PacketKind::encode)
    header_out,       \* None or Some(the outcome of PacketHeader::encode)
    auth_out,         \* None or Some(the outcome of PacketHeader::authenticated_data)
    \* the Sockets, each variable a sequence indexed by socket 1..MaxSockets
    socket_pc,        \* "none", "failed", "alive", "dropping", "dropped", "panicked"
    sender_exit,      \* the field sender_exit: None or Some("Sender")
    recv_exit,        \* the field recv_exit: None or Some("Sender")
    send_rx,          \* the receiving half the send task holds: "none", "open", "closed"
    recv_rx,          \* the receiving half the recv task holds: "none", "open", "closed"
    send_got,         \* the number of exit signals delivered to the send task's channel
    recv_got,         \* the number of exit signals delivered to the recv task's channel
    exit_log          \* the sends drop has made, in order: <<field name, "Ok" or "Err">>

vars == <<pc, overflow_checks, debug_assertions, packet, dst_id, data, origin, flipped,
          local_id, result, key_buf, nonce_buf, unmasked, kind_in, auth_in, kind_result,
          kind_out, header_out, auth_out,
          socket_pc, sender_exit, recv_exit, send_rx, recv_rx, send_got, recv_got, exit_log>>

socket_vars ==
    <<socket_pc, sender_exit, recv_exit, send_rx, recv_rx, send_got, recv_got, exit_log>>
packet_vars ==
    <<pc, overflow_checks, debug_assertions, packet, dst_id, data, origin, flipped,
      local_id, result, key_buf, nonce_buf, unmasked, kind_in, auth_in, kind_result,
      kind_out, header_out, auth_out>>

SocketIds == 1..MaxSockets

\* no Socket has been created
SocketInit ==
    /\ socket_pc = [i \in SocketIds |-> "none"]
    /\ sender_exit = [i \in SocketIds |-> None]
    /\ recv_exit = [i \in SocketIds |-> None]
    /\ send_rx = [i \in SocketIds |-> "none"]
    /\ recv_rx = [i \in SocketIds |-> "none"]
    /\ send_got = [i \in SocketIds |-> 0]
    /\ recv_got = [i \in SocketIds |-> 0]
    /\ exit_log = [i \in SocketIds |-> <<>>]

Init ==
    /\ pc = "start"
    /\ overflow_checks \in BOOLEAN
    /\ debug_assertions \in BOOLEAN
    /\ packet = None
    /\ dst_id = None
    /\ data = <<>>
    /\ origin = "none"
    /\ flipped = -1
    /\ local_id = None
    /\ result = None
    /\ key_buf = None
    /\ nonce_buf = None
    /\ unmasked = <<>>
    /\ kind_in = 0
    /\ auth_in = <<>>
    /\ kind_result = None
    /\ kind_out = None
    /\ header_out = None
    /\ auth_out = None
    /\ SocketInit

Built(p) ==
    /\ pc = "start"
    /\ pc' = "built"
    /\ packet' = Some(p)
    /\ UNCHANGED <<overflow_checks, debug_assertions, dst_id, data, origin, flipped, local_id,
                   result, key_buf, nonce_buf, unmasked, kind_in, auth_in, kind_result,
                   kind_out, header_out, auth_out>>
    /\ UNCHANGED socket_vars

\* Packet::new_message; the iv is rand::random()
new_message ==
    \E src_id \in NodeIds, nonce \in Nonces, ciphertext \in Messages, iv \in IVs :
        Built(Packet(iv, PacketHeader(src_id, Message(nonce)), ciphertext))

\* Packet::new_whoareyou
new_whoareyou ==
    \E src_id \in NodeIds, request_nonce \in Nonces, id_nonce \in IdNonces,
       enr_seq \in EnrSeqs, iv \in IVs :
        Built(Packet(iv, PacketHeader(src_id, WhoAreYou(request_nonce, id_nonce, enr_seq)), <<>>))

\* Packet::new_authheader
new_authheader ==
    \E src_id \in NodeIds, k \in HandshakeKinds, iv \in IVs :
        Built(Packet(iv, PacketHeader(src_id, k), <<>>))

\* packet.header.kind.encode()
KindEncode ==
    /\ pc = "built"
    /\ kind_out' = Some(EncodeOutcome(KindOf(HeaderOf(packet[1])), debug_assertions,
                                      PacketKind_encode(KindOf(HeaderOf(packet[1])))))
    /\ pc' = "kind_encoded"
    /\ UNCHANGED <<overflow_checks, debug_assertions, packet, dst_id, data, origin, flipped,
                   local_id, result, key_buf, nonce_buf, unmasked, kind_in, auth_in,
                   kind_result, header_out, auth_out>>
    /\ UNCHANGED socket_vars

\* packet.header.encode()
HeaderEncode ==
    /\ pc = "built"
    /\ header_out' = Some(EncodeOutcome(KindOf(HeaderOf(packet[1])), debug_assertions,
                                        PacketHeader_encode(HeaderOf(packet[1]))))
    /\ pc' = "header_done"
    /\ UNCHANGED <<overflow_checks, debug_assertions, packet, dst_id, data, origin, flipped,
                   local_id, result, key_buf, nonce_buf, unmasked, kind_in, auth_in,
                   kind_result, kind_out, auth_out>>
    /\ UNCHANGED socket_vars

\* packet.header.authenticated_data(); a WhoAreYou, the one kind for which
\* no encoder is called, passes its assertion in every build
AuthenticatedData ==
    /\ pc = "built"
    /\ auth_out' = Some(EncodeOutcome(KindOf(HeaderOf(packet[1])), debug_assertions,
                                      authenticated_data(HeaderOf(packet[1]))))
    /\ pc' = "header_done"
    /\ UNCHANGED <<overflow_checks, debug_assertions, packet, dst_id, data, origin, flipped,
                   local_id, result, key_buf, nonce_buf, unmasked, kind_in, auth_in,
                   kind_result, kind_out, header_out>>
    /\ UNCHANGED socket_vars

\* packet.encode(&dst_id): the header encoder panics before the key and nonce
\* buffers exist, or the datagram is returned and the buffers are left behind
Encode ==
    /\ pc = "built"
    /\ \E dst \in DstIds :
        \E outcome \in {EncodeOutcome(KindOf(HeaderOf(packet[1])), debug_assertions,
                                      Packet_encode(packet[1], dst))},
           run \in {generate_header_run(packet[1], dst)} :
            /\ dst_id' = Some(dst)
            /\ IF Tag(outcome) = "Panic"
               THEN /\ pc' = "encode_panicked"
                    /\ UNCHANGED <<data, origin, key_buf, nonce_buf>>
               ELSE /\ pc' = "wire"
                    /\ data' = Val(outcome)
                    /\ origin' = "encode"
                    /\ key_buf' = Some(run[2])
                    /\ nonce_buf' = Some(run[3])
    /\ UNCHANGED <<overflow_checks, debug_assertions, packet, flipped, local_id, result,
                   unmasked, kind_in, auth_in, kind_result, kind_out, header_out, auth_out>>
    /\ UNCHANGED socket_vars

\* the network (or an adversary) changes an encoded datagram in flight
Tamper ==
    /\ pc = "wire"
    /\ origin = "encode"
    /\ \/ \E f \in Flips :
            /\ f[1] < Len(data)
            /\ data' = FlipBit(data, f[1], f[2])
            /\ origin' = "flip"
            /\ flipped' = f[1]
       \/ /\ data' = Append(data, 9)
          /\ origin' = "append"
          /\ flipped' = flipped
       \/ \E n \in TruncatedLengths :
            /\ n < Len(data)
            /\ data' = Slice(data, 0, n)
            /\ origin' = "truncate"
            /\ flipped' = flipped
    /\ UNCHANGED <<pc, overflow_checks, debug_assertions, packet, dst_id, local_id, result,
                   key_buf, nonce_buf, unmasked, kind_in, auth_in, kind_result,
                   kind_out, header_out, auth_out>>
    /\ UNCHANGED socket_vars

\* an arbitrary datagram arrives (the fuzz target's input)
Fuzz ==
    /\ pc = "start"
    /\ \E bytes \in FuzzData : data' = bytes
    /\ origin' = "fuzz"
    /\ pc' = "wire"
    /\ UNCHANGED <<overflow_checks, debug_assertions, packet, dst_id, flipped, local_id,
                   result, key_buf, nonce_buf, unmasked, kind_in, auth_in, kind_result,
                   kind_out, header_out, auth_out>>
    /\ UNCHANGED socket_vars

\* Packet::decode(&local, &data)
Decode ==
    /\ pc = "wire"
    /\ \E local \in NodeIds :
        \E run \in {Packet_decode_run(local, data, overflow_checks)} :
            /\ local_id' = Some(local)
            /\ result' = Some(ValueOf(run))
            /\ key_buf' = KeyOf(run)
            /\ nonce_buf' = NonceOf(run)
            /\ unmasked' = UnmaskedOf(run)
    /\ pc' = "done"
    /\ UNCHANGED <<overflow_checks, debug_assertions, packet, dst_id, data, origin, flipped,
                   kind_in, auth_in, kind_result, kind_out, header_out, auth_out>>
    /\ UNCHANGED socket_vars

\* PacketKind::decode(kind, &auth_data) called on its own
KindDecode ==
    /\ pc = "start"
    /\ \E kind \in KindBytes, auth_data \in AuthInputs :
        /\ kind_in' = kind
        /\ auth_in' = auth_data
        /\ kind_result' = Some(PacketKind_decode(kind, auth_data, overflow_checks))
    /\ pc' = "kind_done"
    /\ UNCHANGED <<overflow_checks, debug_assertions, packet, dst_id, data, origin, flipped,
                   local_id, result, key_buf, nonce_buf, unmasked, kind_out, header_out,
                   auth_out>>
    /\ UNCHANGED socket_vars

Next ==
    \/ new_message
    \/ new_whoareyou
    \/ new_authheader
    \/ KindEncode
    \/ HeaderEncode
    \/ AuthenticatedData
    \/ Encode
    \/ Tamper
    \/ Fuzz
    \/ Decode
    \/ KindDecode

Spec == Init /\ [][Next]_vars

(* ------------------------------------------------------------------ *)
(* Socket: construction, the two handler tasks' exit channels, and Drop *)
(* ------------------------------------------------------------------ *)
\* option.expect(msg)
expect(option, msg) == IF option = None THEN Panic(msg) ELSE Ok(option[1])

\* oneshot::Sender::send(()): the value is delivered while the receiving half
\* is alive, and handed back as Err(()) once it is gone
oneshot_send(rx) == IF rx = "open" THEN Ok(<<>>) ELSE Err("()", 0)

\* mutant of unwrap_or_else: the result is unwrapped
unwrap_or_else_Unwrap(sent) ==
    IF Tag(sent) = "Err" THEN Panic("called Result::unwrap() on an Err value") ELSE Ok(<<>>)

\* result.unwrap_or_else(|_| ())
unwrap_or_else(sent) == Ok(<<>>)

\* one statement of drop: self.<field>.take().expect(..).send(()).unwrap_or_else(|_| ())
drop_statement(field, rx) ==
    IF Tag(expect(field, "Exit always exists")) = "Panic"
    THEN expect(field, "Exit always exists")
    ELSE unwrap_or_else(oneshot_send(rx))

\* Socket::new: from_std fails, or both handlers are spawned and their exit
\* senders stored
Socket_new ==
    /\ \E i \in SocketIds :
        /\ socket_pc[i] = "none"
        /\ \/ /\ socket_pc' = [socket_pc EXCEPT ![i] = "failed"]
              /\ UNCHANGED <<sender_exit, recv_exit, send_rx, recv_rx>>
           \/ /\ socket_pc' = [socket_pc EXCEPT ![i] = "alive"]
              /\ recv_rx' = [recv_rx EXCEPT ![i] = "open"]
              /\ send_rx' = [send_rx EXCEPT ![i] = "open"]
              /\ sender_exit' = [sender_exit EXCEPT ![i] = Some("Sender")]
              /\ recv_exit' = [recv_exit EXCEPT ![i] = Some("Sender")]
    /\ UNCHANGED <<send_got, recv_got, exit_log>>
    /\ UNCHANGED packet_vars

\* the send handler's task ends, for whatever reason, and drops its receiving half
SendTaskEnds ==
    /\ \E i \in SocketIds :
        /\ send_rx[i] = "open"
        /\ send_rx' = [send_rx EXCEPT ![i] = "closed"]
    /\ UNCHANGED <<socket_pc, sender_exit, recv_exit, recv_rx, send_got, recv_got, exit_log>>
    /\ UNCHANGED packet_vars

\* the recv handler's task ends and drops its receiving half
RecvTaskEnds ==
    /\ \E i \in SocketIds :
        /\ recv_rx[i] = "open"
        /\ recv_rx' = [recv_rx EXCEPT ![i] = "closed"]
    /\ UNCHANGED <<socket_pc, sender_exit, recv_exit, send_rx, send_got, recv_got, exit_log>>
    /\ UNCHANGED packet_vars

\* drop, first statement: the exit signal of the send handler.  A panic unwinds
\* out of drop, and the other sender is dropped unused.
DropSenderExit ==
    /\ \E i \in SocketIds :
        /\ socket_pc[i] = "alive"
        /\ \E outcome \in {drop_statement(sender_exit[i], send_rx[i])} :
            /\ sender_exit' = [sender_exit EXCEPT ![i] = None]
            /\ exit_log' =
                  IF sender_exit[i] = None THEN exit_log
                  ELSE [exit_log EXCEPT
                          ![i] = Append(@, <<"sender_exit", Tag(oneshot_send(send_rx[i]))>>)]
            /\ send_got' =
                  IF sender_exit[i] # None /\ Tag(oneshot_send(send_rx[i])) = "Ok"
                  THEN [send_got EXCEPT ![i] = @ + 1]
                  ELSE send_got
            /\ IF Tag(outcome) = "Panic"
               THEN /\ socket_pc' = [socket_pc EXCEPT ![i] = "panicked"]
                    /\ recv_exit' = [recv_exit EXCEPT ![i] = None]
               ELSE /\ socket_pc' = [socket_pc EXCEPT ![i] = "dropping"]
                    /\ UNCHANGED recv_exit
    /\ UNCHANGED <<send_rx, recv_rx, recv_got>>
    /\ UNCHANGED packet_vars

\* drop, second statement: the exit signal of the recv handler
DropRecvExit ==
    /\ \E i \in SocketIds :
        /\ socket_pc[i] = "dropping"
        /\ \E outcome \in {drop_statement(recv_exit[i], recv_rx[i])} :
            /\ recv_exit' = [recv_exit EXCEPT ![i] = None]
            /\ exit_log' =
                  IF recv_exit[i] = None THEN exit_log
                  ELSE [exit_log EXCEPT
                          ![i] = Append(@, <<"recv_exit", Tag(oneshot_send(recv_rx[i]))>>)]
            /\ recv_got' =
                  IF recv_exit[i] # None /\ Tag(oneshot_send(recv_rx[i])) = "Ok"
                  THEN [recv_got EXCEPT ![i] = @ + 1]
                  ELSE recv_got
            /\ socket_pc' = [socket_pc EXCEPT
                               ![i] = IF Tag(outcome) = "Panic" THEN "panicked" ELSE "dropped"]
    /\ UNCHANGED <<sender_exit, send_rx, recv_rx, send_got>>
    /\ UNCHANGED packet_vars

SocketNext ==
    \/ Socket_new
    \/ SendTaskEnds
    \/ RecvTaskEnds
    \/ DropSenderExit
    \/ DropRecvExit

\* the codec stays idle while the Sockets run
SocketSpecInit == Init /\ ~overflow_checks /\ ~debug_assertions

SocketSpec == SocketSpecInit /\ [][SocketNext]_vars

(* ------------------------------------------------------------------ *)
(* Properties                                                          *)
(* ------------------------------------------------------------------ *)
Decoded == pc = "done"
KindDecoded == pc = "kind_done"
\* Packet::decode was handed an untouched Packet::encode output, with the
\* id it was encoded for
DecodedOwnEncoding == Decoded /\ origin = "encode" /\ local_id = dst_id
\* the static header bytes of the datagram unmasked with the local id and
\* the datagram's iv
UnmaskedStatic ==
    apply_keystream(
        Aes128Ctr_new(Slice(NodeId_raw(local_id[1]), 0, 16), Slice(data, 0, IV_LENGTH)),
        Slice(data, IV_LENGTH, IV_LENGTH + STATIC_HEADER_LENGTH))[1]
\* the auth-data length Packet::decode reads from the unmasked static header
DeclaredAuthDataSize ==
    256 * UnmaskedStatic[STATIC_HEADER_LENGTH - 1] + UnmaskedStatic[STATIC_HEADER_LENGTH]
\* protocol tag + source id + kind + auth-data length, as PacketHeader::encode lays them out
FramingLength == Len(PROTOCOL_ID) + 32 + 1 + 2

\* C1: decoding, with the destination id, what Packet::encode produced for a
\* packet whose source differs from the destination gives back Ok(that packet).
C1_RoundTrip ==
    (DecodedOwnEncoding /\ SrcIdOf(HeaderOf(packet[1])) # dst_id[1])
        => result = Some(Ok(packet[1]))

\* C2: Packet::decode never panics, whatever the local id and the input bytes.
C2_DecodeNeverPanics ==
    Decoded => Tag(result[1]) # "Panic"

\* C3: once the protocol tag has matched, a declared auth-data length larger than
\* the bytes following the iv and the static header yields InvalidAuthDataSize.
C3_OversizedAuthDataRejected ==
    (/\ Decoded
     /\ Len(data) >= IV_LENGTH + STATIC_HEADER_LENGTH
     /\ result[1] # Err("TooSmall", 0)
     /\ Slice(UnmaskedStatic, 0, 8) = PROTOCOL_ID
     /\ DeclaredAuthDataSize > Len(data) - (IV_LENGTH + STATIC_HEADER_LENGTH))
        => result[1] = Err("InvalidAuthDataSize", 0)

\* C4: Packet::decode returns TooSmall exactly when the input is shorter than
\* iv + framing (tag, source id, kind, length) + the 12-byte Message auth-data.
C4_TooSmallExactly ==
    Decoded =>
        (result[1] = Err("TooSmall", 0)
            <=> Len(data) < IV_LENGTH + FramingLength + MESSAGE_NONCE_LENGTH)

\* C5: for an input not rejected as TooSmall, Packet::decode returns
\* HeaderDecryptionFailed exactly when the first 8 unmasked header bytes differ
\* from the protocol tag; and flipping a bit of a masked tag byte of an encoded
\* packet always yields HeaderDecryptionFailed at its destination.
C5_HeaderDecryptionFailedIffTagDiffers ==
    /\ (Decoded /\ result[1] # Err("TooSmall", 0)) =>
          (result[1] = Err("HeaderDecryptionFailed", 0)
              <=> Slice(UnmaskedStatic, 0, 8) # PROTOCOL_ID)
    /\ (Decoded /\ origin = "flip" /\ flipped \in TagOffsets /\ local_id = dst_id) =>
          result[1] = Err("HeaderDecryptionFailed", 0)
C5_Witness ==
    /\ Decoded /\ origin = "flip" /\ flipped = IV_LENGTH + 7 /\ local_id = dst_id
    /\ result[1] = Err("HeaderDecryptionFailed", 0)

\* C6: a packet decoded as WhoAreYou has an empty message, and an encoded
\* WHOAREYOU packet followed by a further byte decodes to UnknownPacket.
C6_WhoAreYouPayloadRule ==
    /\ (Decoded /\ Tag(result[1]) = "Ok" /\ is_whoareyou(KindOf(HeaderOf(Val(result[1]))))) =>
          MessageOf(Val(result[1])) = <<>>
    /\ (Decoded /\ origin = "append" /\ local_id = dst_id
            /\ is_whoareyou(KindOf(HeaderOf(packet[1])))) =>
          result[1] = Err("UnknownPacket", 0)

\* C7: PacketKind::decode of kind 0 accepts exactly the 12-byte auth-data, as
\* the nonce, and of kind 1 exactly the 52-byte auth-data, split into nonce,
\* id nonce and big-endian enr_seq; every other length is InvalidAuthDataSize.
C7_KindSizeEnforcement ==
    /\ (KindDecoded /\ kind_in = 0) =>
          kind_result[1] =
              IF Len(auth_in) = 12 THEN <<"Ok", <<"Message", auth_in>> >>
              ELSE Err("InvalidAuthDataSize", 0)
    /\ (KindDecoded /\ kind_in = 1 /\ Len(auth_in) # 52) =>
          kind_result[1] = Err("InvalidAuthDataSize", 0)
    /\ (KindDecoded /\ kind_in = 1 /\ Len(auth_in) = 52) =>
          /\ Tag(kind_result[1]) = "Ok"
          /\ Len(Val(kind_result[1])) = 4
          /\ Variant(Val(kind_result[1])) = "WhoAreYou"
          /\ RequestNonceOf(Val(kind_result[1])) = SubSeq(auth_in, 1, 12)
          /\ IdNonceOf(Val(kind_result[1])) = SubSeq(auth_in, 13, 44)
          /\ to_be_bytes(EnrSeqOf(Val(kind_result[1])), 8) = SubSeq(auth_in, 45, 52)
C7_Witness ==
    /\ KindDecoded /\ kind_in = 1 /\ Len(auth_in) = 52
    /\ Tag(kind_result[1]) = "Ok" /\ EnrSeqOf(Val(kind_result[1])) = 258

\* C8: for kind 2 and auth-data of at least 15 bytes, PacketKind::decode returns
\* InvalidVersion exactly when the 2-byte big-endian version field differs from
\* VERSION; auth-data produced by PacketKind::encode is never InvalidVersion.
C8_VersionCheck ==
    (KindDecoded /\ kind_in = 2 /\ Len(auth_in) >= 3 + MESSAGE_NONCE_LENGTH) =>
        /\ IsErr(kind_result[1], "InvalidVersion")
              <=> (256 * auth_in[1] + auth_in[2] # VERSION)
        /\ auth_in \in EncodedKinds => ~IsErr(kind_result[1], "InvalidVersion")

\* C9: PacketKind::decode returns UnknownPacket exactly for the kind bytes
\* outside {0, 1, 2}.
C9_UnknownPacketIffUnknownKind ==
    KindDecoded =>
        (kind_result[1] = Err("UnknownPacket", 0) <=> kind_in \notin {0, 1, 2})
C9_Witness ==
    /\ KindDecoded /\ kind_in = 255 /\ Len(auth_in) = 12
    /\ kind_result[1] = Err("UnknownPacket", 0)

\* C10: every Err of Packet::decode is TooSmall, HeaderDecryptionFailed,
\* InvalidAuthDataSize, InvalidVersion, InvalidEnr or UnknownPacket; it is
\* never HeaderLengthInvalid.
C10_ClosedErrorTaxonomy ==
    (Decoded /\ Tag(result[1]) = "Err") =>
        ErrName(result[1]) \in {"TooSmall", "HeaderDecryptionFailed", "InvalidAuthDataSize",
                           "InvalidVersion", "InvalidEnr", "UnknownPacket"}
C10_Witness ==
    /\ Decoded /\ origin = "encode" /\ local_id = dst_id
    /\ result[1] = Err("InvalidAuthDataSize", 0)

\* Packet::encode has returned the datagram, which nothing has touched yet
Encoded == pc = "wire" /\ origin = "encode"

HeaderEncoded == pc = "header_done" /\ header_out # None /\ Tag(header_out[1]) = "Ok"

AuthenticatedDataReturned ==
    pc = "header_done" /\ auth_out # None /\ Tag(auth_out[1]) = "Ok"

\* C13: PacketHeader::authenticated_data returns no bytes for a WhoAreYou
\* header, and for a Message or Handshake header the bytes PacketHeader::encode
\* returns for that header.
C13_AuthenticatedData ==
    AuthenticatedDataReturned =>
        LET h == HeaderOf(packet[1])
        IN  IF Variant(KindOf(h)) = "WhoAreYou"
            THEN Val(auth_out[1]) = <<>>
            ELSE /\ Val(auth_out[1]) = PacketHeader_encode(h)
                 /\ Len(Val(auth_out[1])) >= 43 + MESSAGE_NONCE_LENGTH
C13_Witness ==
    /\ AuthenticatedDataReturned
    /\ Variant(KindOf(HeaderOf(packet[1]))) = "Message"
    /\ Val(auth_out[1]) = PROTOCOL_ID \o Fill(32, 3) \o <<0, 0, 12>> \o Fill(12, 12)

\* C14: the key and nonce buffers of the header masking hold only zeros when
\* Packet::encode returns, and when Packet::decode returns on any path that
\* derived them.
C14_KeyAndNonceZeroed ==
    /\ Encoded =>
          /\ key_buf = Some(Fill(16, 0))
          /\ nonce_buf = Some(Fill(16, 0))
    /\ (Decoded /\ key_buf # None) =>
          /\ key_buf = Some(Fill(16, 0))
          /\ nonce_buf = Some(Fill(16, 0))

\* C15: when Packet::decode is handed a datagram of Packet::encode with the
\* id it was encoded for, the static region it unmasks is the framing that
\* PacketHeader::encode writes before the auth-data (tag, source id, kind,
\* length), the auth-data length it reads is the one encode wrote, and the
\* auth-data it slices starts where encode put the first auth-data byte.
C15_StaticRegionIsTheFraming ==
    (DecodedOwnEncoding /\ result[1] # Err("TooSmall", 0)) =>
        LET h == HeaderOf(packet[1])
            auth_data == PacketKind_encode(KindOf(h))
            framing == Len(PacketHeader_encode(h)) - Len(auth_data)
        IN  /\ STATIC_HEADER_LENGTH = framing
            /\ DeclaredAuthDataSize = Len(auth_data)
            /\ Len(unmasked) > STATIC_HEADER_LENGTH =>
                  unmasked[STATIC_HEADER_LENGTH + 1] = auth_data[1]

\* C16: every header byte Packet::decode unmasks, in the static region or in
\* the auth-data that follows it, is XORed with the keystream byte of its own
\* position in the header for (key, iv), the byte Packet::encode masks that
\* position with; so unmasking a datagram of Packet::encode with the id it was
\* encoded for gives back, at every header position it reaches, the byte of
\* header.encode().
C16_KeystreamContinuity ==
    Decoded =>
        /\ \A j \in 1..Len(unmasked) :
              unmasked[j] =
                  Xor(data[IV_LENGTH + j],
                      KeystreamByte(SubSeq(local_id[1], 1, 16), SubSeq(data, 1, 16), j - 1))
        /\ (origin = "encode" /\ local_id = dst_id) =>
              LET header == PacketHeader_encode(HeaderOf(packet[1]))
                  n == IF Len(unmasked) < Len(header) THEN Len(unmasked) ELSE Len(header)
              IN  SubSeq(unmasked, 1, n) = SubSeq(header, 1, n)
C16_Witness ==
    /\ DecodedOwnEncoding
    /\ Len(unmasked) = STATIC_HEADER_LENGTH + 40
    /\ SubSeq(unmasked, 1, 8) = PROTOCOL_ID
    /\ SubSeq(unmasked, STATIC_HEADER_LENGTH + 21, STATIC_HEADER_LENGTH + 32)
          = Fill(MESSAGE_NONCE_LENGTH, 12)
    /\ SubSeq(data, IV_LENGTH + 1, IV_LENGTH + Len(unmasked)) # unmasked

\* C17: for kind 2 and auth-data that passes the version check,
\* PacketKind::decode compares the integer sum (0..510) of the signature length
\* byte and the public-key length byte with the bytes that follow the fixed
\* prefix: InvalidAuthDataSize when the sum exceeds them, and otherwise a
\* signature and a public key of exactly the declared lengths (or InvalidEnr
\* for what trails them); it neither wraps the sum nor panics.
C17_LengthSumNotWrapped ==
    (/\ KindDecoded /\ kind_in = 2
     /\ Len(auth_in) >= 3 + MESSAGE_NONCE_LENGTH
     /\ ~VersionMismatch(auth_in)) =>
        LET sig_size == auth_in[MESSAGE_NONCE_LENGTH + 2]
            eph_key_size == auth_in[MESSAGE_NONCE_LENGTH + 3]
            remaining == Len(auth_in) - (3 + MESSAGE_NONCE_LENGTH)
        IN  IF sig_size + eph_key_size > remaining
            THEN kind_result[1] = Err("InvalidAuthDataSize", 0)
            ELSE \/ kind_result[1] = Err("InvalidEnr", 0)
                 \/ /\ Tag(kind_result[1]) = "Ok"
                    /\ Len(IdNonceSigOf(Val(kind_result[1]))) = sig_size
                    /\ Len(EphemPubkeyOf(Val(kind_result[1]))) = eph_key_size

\* the kinds of the auth-data round trip: every Message and WhoAreYou, and the
\* Handshakes without a node record (signature and public key of at most 255 bytes)
RoundTripKinds ==
    MessageKinds \cup WhoAreYouKinds \cup {k \in HandshakeKinds : EnrRecordOf(k) = None}

\* C18: for every Message, WhoAreYou, or Handshake without node record whose
\* signature and public key have at most 255 bytes, PacketKind::decode of the
\* kind's discriminant and of the bytes of its encode() returns Ok of that kind.
C18_KindRoundTrip ==
    KindDecoded =>
        \A k \in RoundTripKinds :
            (kind_in = KindByte(k) /\ auth_in = PacketKind_encode(k)) =>
                kind_result = Some(Ok(k))

\* C19: Packet::decode reports the earliest failing stage: too short before
\* everything, then the protocol tag, then the declared auth-data length, then
\* the kind decoding, then the WhoAreYou message rule.  A datagram of
\* Packet::encode whose kind byte alone was changed passes stages 1 to 3 at its
\* destination and fails in stage 4: UnknownPacket for kind byte 3 (a
\* Handshake's 2 with its lowest bit flipped), InvalidAuthDataSize for a Message
\* read as kind 1 or a WhoAreYou read as kind 0, message bytes or not.
C19_StageOrdering ==
    /\ (Decoded /\ TooSmall(data)) => result[1] = Err("TooSmall", 0)
    /\ (Decoded /\ ~TooSmall(data) /\ Slice(UnmaskedStatic, 0, 8) # PROTOCOL_ID) =>
          result[1] = Err("HeaderDecryptionFailed", 0)
    /\ (Decoded /\ origin = "flip" /\ flipped = IV_LENGTH + 40 /\ local_id = dst_id) =>
          result[1] =
              IF Variant(KindOf(HeaderOf(packet[1]))) = "Handshake"
              THEN Err("UnknownPacket", 0)
              ELSE Err("InvalidAuthDataSize", 0)

\* PacketKind::encode was called
KindEncoded == pc = "kind_encoded"

\* C20: the length assertions of PacketKind::encode hold for every kind: the
\* auth-data of a WhoAreYou has 52 bytes, the auth-data of a Handshake has
\* expected_len bytes (the prefix constant + signature + public key + encoded
\* node record), and so no call ends in the assertion's panic.
C20_EncodeAssertionsHold ==
    KindEncoded =>
        LET k == KindOf(HeaderOf(packet[1]))
        IN  /\ Variant(k) = "WhoAreYou" => Len(PacketKind_encode(k)) = 52
            /\ Variant(k) = "Handshake" => Len(PacketKind_encode(k)) = expected_len(k)
            /\ Tag(kind_out[1]) = "Ok"

\* drop of Socket i has run to its end, by returning or by a panic
DropEnded(i) == socket_pc[i] \in {"dropped", "panicked"}

\* C21: a drop of a Socket sends the exit signal once to the send handler and
\* then once to the recv handler; it does not panic, and it does not skip the
\* second signal when the first cannot be delivered; so once a drop has ended,
\* each of the two tasks that still runs has the signal in its channel.
C21_DropSignalsBothTasks ==
    \A i \in SocketIds :
        /\ socket_pc[i] # "panicked"
        /\ socket_pc[i] = "dropping" =>
              /\ Len(exit_log[i]) = 1
              /\ exit_log[i][1][1] = "sender_exit"
        /\ DropEnded(i) =>
              /\ Len(exit_log[i]) = 2
              /\ exit_log[i][1][1] = "sender_exit"
              /\ exit_log[i][2][1] = "recv_exit"
              /\ send_rx[i] = "open" => send_got[i] = 1
              /\ recv_rx[i] = "open" => recv_got[i] = 1
        /\ send_got[i] <= 1 /\ recv_got[i] <= 1
C21_Witness ==
    \E i \in SocketIds :
        /\ socket_pc[i] = "dropped"
        /\ exit_log[i] = <<<<"sender_exit", "Err">>, <<"recv_exit", "Ok">>>>
        /\ send_rx[i] = "closed" /\ recv_rx[i] = "open" /\ recv_got[i] = 1
====
